---- MODULE Spec2Model ----
(***************************************************************************)
(* Model of CollectionPathHelper (src/src/path.Helper.js).                  *)
(*                                                                         *)
(* A JavaScript string is a sequence of one-character strings; JavaScript  *)
(* positions are 0-based, so character i of s is s[i + 1].  A JavaScript   *)
(* value is a record tagged by its type: [t |-> "string", s |-> chars],    *)
(* [t |-> "array", a |-> elements] or a record with any other tag.         *)
(***************************************************************************)
EXTENDS Integers, Sequences, FiniteSets, TLC

\* Longest path string drawn as an input.
MaxLen == 5
\* Largest options.count given to removePathLevels.
MaxCount == 5

\* The characters paths are drawn from: two key characters, the three
\* characters of the path syntax and the comma of the classifier's rule.
Chars == {"a", "b", "[", "]", ".", ","}

RECURSIVE StringsOfLen(_)
StringsOfLen(n) ==
    IF n = 0 THEN {<<>>}
    ELSE {Append(s, c) : s \in StringsOfLen(n - 1), c \in Chars}

Strings == UNION {StringsOfLen(n) : n \in 0..MaxLen}

Str(s) == [t |-> "string", s |-> s]
NonStrings == {[t |-> "null"], [t |-> "undefined"], [t |-> "number"],
               [t |-> "boolean"], [t |-> "object"]}
isString(v) == v.t = "string"

Min(S) == CHOOSE x \in S : \A y \in S : x <= y
Max2(a, b) == IF a >= b THEN a ELSE b
Min2(a, b) == IF a <= b THEN a ELSE b

(***************************************************************************)
(* String primitives used by the code.                                     *)
(***************************************************************************)
\* s.indexOf(c, from): the first position >= from holding c, or -1.
indexOf(s, c, from) ==
    LET hits == {i \in Max2(from, 0)..(Len(s) - 1) : s[i + 1] = c}
    IN  IF hits = {} THEN -1 ELSE Min(hits)

\* s.slice(from, to) for 0 <= from; to is clamped to the length.
slice(s, from, to) ==
    LET e == Min2(to, Len(s))
    IN  IF from >= e THEN <<>> ELSE SubSeq(s, from + 1, e)

\* s.slice(from)
sliceFrom(s, from) == slice(s, from, Len(s))

\* s.indexOf(pat) for a string pattern: the first position where pat occurs.
indexOfString(s, pat) ==
    LET hits == {i \in 0..(Len(s) - Len(pat)) : slice(s, i, i + Len(pat)) = pat}
    IN  IF hits = {} THEN -1 ELSE Min(hits)

\* s.replace(pat, ""): the first occurrence of pat removed, if there is one.
replaceFirst(s, pat) ==
    LET i == indexOfString(s, pat)
    IN  IF i = -1 THEN s ELSE slice(s, 0, i) \o sliceFrom(s, i + Len(pat))

\* s.split(pat).join(""): every occurrence of pat removed, left to right.
RECURSIVE replaceAll(_, _)
replaceAll(s, pat) ==
    LET i == indexOfString(s, pat)
    IN  IF i = -1 \/ pat = <<>> THEN s
        ELSE slice(s, 0, i) \o replaceAll(sliceFrom(s, i + Len(pat)), pat)

\* s.split('.'): the dot-separated segments, empty ones included.
RECURSIVE splitDot(_)
splitDot(s) ==
    LET i == indexOf(s, ".", 0)
    IN  IF i = -1 THEN <<s>>
        ELSE <<slice(s, 0, i)>> \o splitDot(sliceFrom(s, i + 1))

\* getRemainingString(property, {discardedStrings: [d]}) with global: true.
getRemainingStringGlobal(property, d) == replaceAll(property, d)

\* getRemainingString(property, {discardedStrings: [d]}): global defaults to
\* false, so the first occurrence of d is replaced by "".
getRemainingString(property, d) == replaceFirst(property, d)

(***************************************************************************)
(* The path operations.                                                    *)
(***************************************************************************)
\* getStartType with the comma searched from position 1 instead of 2.
getStartTypeCommaFromOne(path) ==
    IF isString(path) /\ Len(path.s) > 0
    THEN LET endBracket == indexOf(path.s, "]", 1)
         IN  IF /\ path.s[1] = "["
                /\ endBracket > -1
                /\ indexOf(slice(path.s, 0, endBracket), ",", 1) = -1
             THEN "array"
             ELSE "object"
    ELSE "unknown"

getStartType(path) ==
    IF isString(path) /\ Len(path.s) > 0
    THEN LET endBracket == indexOf(path.s, "]", 1)
         IN  IF /\ path.s[1] = "["
                /\ endBracket > -1
                /\ indexOf(slice(path.s, 0, endBracket), ",", 2) = -1
             THEN "array"
             ELSE "object"
    ELSE "unknown"

\* The while loop of explodePath on one dot-segment, with the final push:
\* the fragments the segment contributes, in order.
RECURSIVE splitPartial(_)
splitPartial(partial) ==
    LET fragmentPartial == indexOf(partial, "[", 1)
    IN  IF fragmentPartial # -1
        THEN LET newFragment == slice(partial, 0, fragmentPartial)
             IN  <<newFragment>>
                   \o splitPartial(getRemainingString(partial, newFragment))
        ELSE <<partial>>

\* The first reduce of explodePath over the dot-segments.
RECURSIVE splitSegments(_)
splitSegments(segments) ==
    IF segments = <<>> THEN <<>>
    ELSE splitPartial(Head(segments)) \o splitSegments(Tail(segments))

\* The second reduce of explodePath: q is kept when q.slice(1) is truthy,
\* that is when q.slice(1) is not the empty string.
RECURSIVE keepSliced(_)
keepSliced(fragments) ==
    IF fragments = <<>> THEN <<>>
    ELSE IF sliceFrom(Head(fragments), 1) # <<>>
         THEN <<Head(fragments)>> \o keepSliced(Tail(fragments))
         ELSE keepSliced(Tail(fragments))

explodePath(path) == keepSliced(splitSegments(splitDot(path)))

\* One step of implodePath's reduce.
implodeStep(path, fragment) ==
    LET type == getStartType(Str(fragment))
    IN  CASE type = "object" ->
               IF path = <<>> THEN path \o fragment
               ELSE path \o <<".">> \o fragment
          [] type = "array" -> path \o fragment
          [] OTHER -> path

RECURSIVE implodeFrom(_, _)
implodeFrom(path, pathFragments) ==
    IF pathFragments = <<>> THEN path
    ELSE implodeFrom(implodeStep(path, Head(pathFragments)), Tail(pathFragments))

\* implodePath with object fragments appended without the '.' separator.
RECURSIVE implodePathNoDot(_)
implodePathNoDot(pathFragments) ==
    IF pathFragments = <<>> THEN <<>>
    ELSE Head(pathFragments) \o implodePathNoDot(Tail(pathFragments))

implodePath(pathFragments) == implodeFrom(<<>>, pathFragments)

\* Array.prototype.splice(start, deleteCount) as it leaves the array: a
\* negative start counts from the end and is clamped to 0, a start past the
\* end is clamped to the length, and deleteCount is clamped to what is left.
splice(array, start, deleteCount) ==
    LET len == Len(array)
        actualStart == IF start < 0 THEN Max2(len + start, 0) ELSE Min2(start, len)
        actualDelete == Min2(Max2(deleteCount, 0), len - actualStart)
    IN  slice(array, 0, actualStart) \o sliceFrom(array, actualStart + actualDelete)

removePathLevels(path, count, termination) ==
    LET pathFragments == explodePath(path)
        spliced == CASE termination = "end" ->
                          splice(pathFragments, Len(pathFragments) - count, count)
                     [] termination = "start" -> splice(pathFragments, 0, count)
                     [] OTHER -> pathFragments
    IN  implodePath(spliced)

\* The reduce of getSubPaths: implodePath of every non-empty prefix.
subPathsOf(fragments) ==
    [i \in 1..Len(fragments) |-> implodePath(SubSeq(fragments, 1, i))]

\* getSubPaths whose final pop is not conditional on ignoreFull.
getSubPathsAlwaysPop(property, ignoreRoot, ignoreFull) ==
    IF ~isString(property) THEN <<>>
    ELSE LET root == IF ~ignoreRoot THEN << <<>> >> ELSE <<>>
             result == root \o subPathsOf(explodePath(property.s))
         IN  IF Len(result) > 0
             THEN SubSeq(result, 1, Len(result) - 1)
             ELSE result

getSubPaths(property, ignoreRoot, ignoreFull) ==
    IF ~isString(property) THEN <<>>
    ELSE LET root == IF ~ignoreRoot THEN << <<>> >> ELSE <<>>
             result == root \o subPathsOf(explodePath(property.s))
         IN  IF Len(result) > 0 /\ ignoreFull
             THEN SubSeq(result, 1, Len(result) - 1)
             ELSE result

replacePathArraysWithString(property, string) ==
    LET exploded == explodePath(property)
    IN  implodePath([i \in 1..Len(exploded) |->
                       IF getStartType(Str(exploded[i])) = "array"
                       THEN string ELSE exploded[i]])

(***************************************************************************)
(* State: one call of one operation.  path is the argument, opts the       *)
(* options given, out the value returned, thrown whether the call threw.   *)
(* op names the operation that has run.  collection is the first argument  *)
(* of get and set.  pc, segments, partial and result are the position and  *)
(* locals of explodePath when it is run step by step.                      *)
(***************************************************************************)
VARIABLES op, path, opts, out, thrown, collection, pc, segments, partial, result

vars == <<op, path, opts, out, thrown, collection, pc, segments, partial, result>>

undefined == [t |-> "undefined"]
NoOpts == [none |-> TRUE]

Inputs == {Str(s) : s \in Strings} \cup NonStrings

Init ==
    /\ op = "none"
    /\ path \in Inputs
    /\ opts = NoOpts
    /\ out = undefined
    /\ thrown = FALSE
    /\ collection = undefined
    /\ pc = "idle"
    /\ segments = <<>>
    /\ partial = <<>>
    /\ result = <<>>

Call(name, o) ==
    /\ op' = name
    /\ opts' = o
    /\ UNCHANGED <<path, collection, pc, segments, partial, result>>

Return(v) == out' = v /\ thrown' = FALSE
\* path.split is not a function (or path is null): a TypeError.
Throw == out' = undefined /\ thrown' = TRUE

GetStartType ==
    /\ op = "none"
    /\ Call("getStartType", NoOpts)
    /\ Return(getStartType(path))

ExplodePath ==
    /\ op = "none"
    /\ Call("explodePath", NoOpts)
    /\ IF isString(path) THEN Return(explodePath(path.s)) ELSE Throw

\* implodePath applied to the fragments explodePath returned.
ImplodePath ==
    /\ op = "explodePath" /\ ~thrown
    /\ Call("implodePath", NoOpts)
    /\ Return(implodePath(out))

\* explodePath applied to the path implodePath returned.
ExplodeImploded ==
    /\ op = "implodePath"
    /\ Call("explodeImploded", NoOpts)
    /\ Return(explodePath(out))

RemovePathLevels ==
    /\ op = "none"
    /\ \E count \in 0..MaxCount, termination \in {"end", "start"} :
         /\ Call("removePathLevels", [count |-> count, termination |-> termination])
         /\ IF isString(path)
            THEN Return(removePathLevels(path.s, count, termination))
            ELSE Throw

GetSubPaths ==
    /\ op = "none"
    /\ \E ignoreRoot \in BOOLEAN, ignoreFull \in BOOLEAN :
         /\ Call("getSubPaths", [ignoreRoot |-> ignoreRoot, ignoreFull |-> ignoreFull])
         /\ Return(getSubPaths(path, ignoreRoot, ignoreFull))

ReplacePathArraysWithString ==
    /\ op = "none"
    /\ \E string \in {<<>>, <<"b">>} :
         /\ Call("replacePathArraysWithString", [string |-> string])
         /\ IF isString(path)
            THEN Return(replacePathArraysWithString(path.s, string))
            ELSE Throw

Next ==
    \/ GetStartType
    \/ ExplodePath
    \/ ImplodePath
    \/ ExplodeImploded
    \/ RemovePathLevels
    \/ GetSubPaths
    \/ ReplacePathArraysWithString

Spec == Init /\ [][Next]_vars

(***************************************************************************)
(* explodePath run step by step: the split, the first reduce with its      *)
(* while loop, and the second reduce.                                      *)
(***************************************************************************)
InitLoop ==
    /\ op = "explodePath"
    /\ path \in {Str(s) : s \in Strings}
    /\ opts = NoOpts
    /\ out = undefined
    /\ thrown = FALSE
    /\ collection = undefined
    /\ pc = "start"
    /\ segments = <<>>
    /\ partial = <<>>
    /\ result = <<>>

\* path.split('.')
ExplodeSplit ==
    /\ pc = "start"
    /\ segments' = splitDot(path.s)
    /\ pc' = "reduce"
    /\ UNCHANGED <<op, path, opts, out, thrown, collection, partial, result>>

\* The reduce callback is entered with the next dot-segment.
ExplodeSegment ==
    /\ pc = "reduce" /\ segments # <<>>
    /\ partial' = Head(segments)
    /\ segments' = Tail(segments)
    /\ pc' = "while"
    /\ UNCHANGED <<op, path, opts, out, thrown, collection, result>>

\* One iteration of the while loop.
ExplodeWhile ==
    /\ pc = "while"
    /\ indexOf(partial, "[", 1) # -1
    /\ LET newFragment == slice(partial, 0, indexOf(partial, "[", 1))
       IN  /\ result' = Append(result, newFragment)
           /\ partial' = getRemainingString(partial, newFragment)
    /\ UNCHANGED <<op, path, opts, out, thrown, collection, pc, segments>>

\* The loop is left and the rest of the segment is pushed.
ExplodePush ==
    /\ pc = "while"
    /\ indexOf(partial, "[", 1) = -1
    /\ result' = Append(result, partial)
    /\ pc' = "reduce"
    /\ UNCHANGED <<op, path, opts, out, thrown, collection, segments, partial>>

\* The second reduce, and the return.
ExplodeFilter ==
    /\ pc = "reduce" /\ segments = <<>>
    /\ out' = keepSliced(result)
    /\ pc' = "done"
    /\ UNCHANGED <<op, path, opts, thrown, collection, segments, partial, result>>

NextLoop ==
    \/ ExplodeSplit
    \/ ExplodeSegment
    \/ ExplodeWhile
    \/ ExplodePush
    \/ ExplodeFilter

SpecLoop == InitLoop /\ [][NextLoop]_vars

(***************************************************************************)
(* get and set.  An object is [t |-> "object", props |-> p], p a function  *)
(* from keys (strings) to values; an array of path fragments is            *)
(* [t |-> "array", a |-> fragments].  lodash/get and lodash/set are        *)
(* modelled as the library behaves on objects with string keys and on      *)
(* paths without empty or quoted keys.                                     *)
(***************************************************************************)
null == [t |-> "null"]
Obj(props) == [t |-> "object", props |-> props]
Arr(a) == [t |-> "array", a |-> a]
isArray(v) == v.t = "array"
isObject(v) == v.t = "object"

\* The string 'undefined', which get passes to lodash/get as the default.
undefinedString == Str(<<"u", "n", "d", "e", "f", "i", "n", "e", "d">>)

\* value.length for a string or an array.
lengthOf(v) == IF isString(v) THEN Len(v.s) ELSE Len(v.a)

\* object[key]
prop(object, key) ==
    IF isObject(object) /\ key \in DOMAIN object.props
    THEN object.props[key]
    ELSE undefined

\* lodash stringToPath: the keys of a path string, in order.
RECURSIVE stringToPath(_)
stringToPath(s) ==
    LET syntax == {i \in 1..Len(s) : s[i] \in {".", "[", "]"}}
    IN  IF s = <<>> THEN <<>>
        ELSE IF syntax = {} THEN <<s>>
        ELSE IF Min(syntax) = 1 THEN stringToPath(Tail(s))
        ELSE <<SubSeq(s, 1, Min(syntax) - 1)>>
               \o stringToPath(SubSeq(s, Min(syntax) + 1, Len(s)))

\* lodash isKey for a string: a plain property name, or a property the
\* object has under that very name.
isKey(s, object) ==
    \/ \A i \in 1..Len(s) : s[i] \notin {".", "[", "]"}
    \/ isObject(object) /\ s \in DOMAIN object.props

\* lodash castPath
castPath(p, object) ==
    IF isArray(p) THEN p.a
    ELSE IF isKey(p.s, object) THEN <<p.s>> ELSE stringToPath(p.s)

\* lodash baseGet's loop: stops at null and undefined.
RECURSIVE walk(_, _)
walk(object, keys) ==
    IF keys = <<>> \/ object.t \in {"null", "undefined"} THEN object
    ELSE walk(prop(object, Head(keys)), Tail(keys))

\* The loop of baseGet ran through all the keys.
RECURSIVE walked(_, _)
walked(object, keys) ==
    \/ keys = <<>>
    \/ /\ object.t \notin {"null", "undefined"}
       /\ walked(prop(object, Head(keys)), Tail(keys))

lodashGet(object, p, defaultValue) ==
    LET keys == castPath(p, object)
        found == IF object.t \in {"null", "undefined"} THEN undefined
                 ELSE IF keys # <<>> /\ walked(object, keys)
                      THEN walk(object, keys)
                      ELSE undefined
    IN  IF found = undefined THEN defaultValue ELSE found

\* lodash baseSet's loop on the keys left.
RECURSIVE assignPath(_, _, _)
assignPath(object, keys, value) ==
    LET key == Head(keys)
        objValue == prop(object, key)
        newValue == IF Len(keys) = 1 THEN value
                    ELSE assignPath(IF isObject(objValue) THEN objValue ELSE Obj(<<>>),
                                    Tail(keys), value)
    IN  Obj([k \in DOMAIN object.props \cup {key} |->
               IF k = key THEN newValue ELSE object.props[k]])

lodashSet(object, p, value) ==
    IF ~isObject(object) THEN object
    ELSE assignPath(object, castPath(p, object), value)

\* The guard shared by get and set: a non-empty string or a non-empty array.
isPath(p) == (isString(p) \/ isArray(p)) /\ lengthOf(p) > 0

\* path.replace('.', '') on a string that starts with '.'.
stripDot(p) ==
    IF isString(p) /\ Len(p.s) > 0 /\ p.s[1] = "."
    THEN Str(replaceFirst(p.s, <<".">>))
    ELSE p

K(a, b) == <<a, b>>
v1 == Str(<<"v">>)
v2 == Str(<<"w">>)

Collections ==
    { Obj([k \in {K("a", "b")} |-> Obj([j \in {K("c", "d")} |-> v1])]),
      Obj([k \in {K("a", "b")} |-> undefinedString]),
      Obj([k \in {K("a", "b"), <<"a", "b", ".", "c", "d">>} |->
             IF k = K("a", "b") THEN Obj([j \in {K("c", "d")} |-> v1])
             ELSE undefinedString]),
      Obj([k \in {K("a", "b")} |-> Obj([j \in {K("c", "d")} |-> undefinedString])]),
      v1,
      null }

PathArguments ==
    { Str(<<>>), Str(K("a", "b")), Str(K("c", "d")),
      Str(<<"a", "b", ".", "c", "d">>), Str(<<".", "a", "b", ".", "c", "d">>),
      Str(<<"a", "b", "[", "c", "d", "]">>), Str(<<"a", ".", "c", "d">>),
      Arr(<<>>), Arr(<<K("a", "b")>>), Arr(<<K("c", "d")>>),
      Arr(<<K("a", "b"), K("c", "d")>>) }
    \cup NonStrings

InitGetSet ==
    /\ op = "none"
    /\ path \in PathArguments
    /\ opts = NoOpts
    /\ out = undefined
    /\ thrown = FALSE
    /\ collection \in Collections
    /\ pc = "idle"
    /\ segments = <<>>
    /\ partial = <<>>
    /\ result = <<>>

Get ==
    /\ op = "none"
    /\ \E def \in {v1, v2} :
         /\ Call("get", [def |-> def])
         /\ IF ~isPath(path) THEN Return(collection)
            ELSE LET direct == lodashGet(collection, stripDot(path), undefinedString)
                 IN  IF direct = undefinedString
                     THEN IF isString(path)
                          THEN Return(lodashGet(collection,
                                                Arr(explodePath(stripDot(path).s)),
                                                undefinedString))
                          ELSE Throw
                     ELSE Return(direct)

Set ==
    /\ op = "none"
    /\ \E value \in {v1, v2} :
         /\ Call("set", [value |-> value])
         /\ IF path.t \in {"null", "undefined"} THEN Throw
            ELSE IF (isString(path) \/ isArray(path)) /\ lengthOf(path) = 0
                 THEN Return(value)
            ELSE IF ~isPath(path) THEN Return(collection)
            ELSE Return(lodashSet(collection, stripDot(path), value))

NextGetSet ==
    \/ Get
    \/ Set

SpecGetSet == InitGetSet /\ [][NextGetSet]_vars

(***************************************************************************)
(* Properties.                                                             *)
(***************************************************************************)
Fragments(v) == explodePath(v.s)

\* C1: exploding the imploded explosion of a path gives the fragments of
\* the path again: the same fragments, in the same order.
RoundTripStable ==
    op = "explodeImploded" => out = Fragments(path)

RoundTripWitness ==
    /\ op = "explodeImploded"
    /\ Len(out) >= 2
    /\ \E i, j \in 1..Len(out) :
         /\ getStartType(Str(out[i])) = "array"
         /\ getStartType(Str(out[j])) = "object"

\* C2: a count above the number of fragments makes removePathLevels return
\* the empty string without failing, for both terminations.
RemoveBeyondLengthIsEmpty ==
    (op = "removePathLevels" /\ isString(path)
        /\ opts.count > Len(Fragments(path)))
    => (~thrown /\ out = <<>>)

\* A key: a non-empty run of characters other than '.', '[' and ']'.
IsKey(k) == k # <<>> /\ \A i \in 1..Len(k) : k[i] \notin {".", "[", "]"}

RECURSIVE joinDot(_)
joinDot(keys) ==
    IF keys = <<>> THEN <<>>
    ELSE IF Len(keys) = 1 THEN keys[1]
    ELSE keys[1] \o <<".">> \o joinDot(Tail(keys))

\* The path is n keys joined by '.'.
IsDottedKeys(s) == \A i \in 1..Len(splitDot(s)) : IsKey(splitDot(s)[i])

\* C3: on n keys joined by '.', removing k <= n levels returns the first
\* n - k keys (termination 'end') or the last n - k keys (termination
\* 'start') joined by '.'.
RemoveExactlyCount ==
    (op = "removePathLevels" /\ isString(path) /\ IsDottedKeys(path.s)
        /\ opts.count <= Len(splitDot(path.s)))
    => LET keys == splitDot(path.s)
           n == Len(keys)
           k == opts.count
       IN  /\ ~thrown
           /\ opts.termination = "end" => out = joinDot(SubSeq(keys, 1, n - k))
           /\ opts.termination = "start" => out = joinDot(SubSeq(keys, k + 1, n))

Flags(o) == (IF o.ignoreRoot THEN 1 ELSE 0) + (IF o.ignoreFull THEN 1 ELSE 0)

\* C4 as stated: getSubPaths returns one path more than there are
\* fragments, less one for each of ignoreRoot and ignoreFull that is set,
\* also when there are no fragments.
SubPathCountExact ==
    (op = "getSubPaths" /\ isString(path))
    => Len(out) = Len(Fragments(path)) + 1 - Flags(opts)

\* C4 amended: the same count, except that it does not go below zero: with
\* no fragments and both flags set the result is empty.
SubPathCount ==
    (op = "getSubPaths" /\ isString(path))
    => Len(out) = Max2(Len(Fragments(path)) + 1 - Flags(opts), 0)

SubPathCountWitness ==
    /\ op = "getSubPaths" /\ isString(path)
    /\ opts.ignoreRoot /\ opts.ignoreFull
    /\ Len(Fragments(path)) = 2
    /\ Len(out) = 1

\* rest is a run of bracketed indices '[' content ']', content non-empty
\* and free of '.', '[' and ']'.
RECURSIVE IsIndices(_)
IsIndices(rest) ==
    \/ rest = <<>>
    \/ /\ rest[1] = "["
       /\ LET e == indexOf(rest, "]", 0)
          IN  /\ e >= 2
              /\ IsKey(slice(rest, 1, e))
              /\ IsIndices(sliceFrom(rest, e + 1))

keyOf(segment) ==
    LET i == indexOf(segment, "[", 0)
    IN  IF i = -1 THEN segment ELSE slice(segment, 0, i)

\* The path is object keys joined by '.', each followed by zero or more
\* bracketed indices.
IsKeysWithIndices(s) ==
    \A i \in 1..Len(splitDot(s)) :
        LET segment == splitDot(s)[i]
        IN  /\ IsKey(keyOf(segment))
            /\ IsIndices(sliceFrom(segment, Len(keyOf(segment))))

\* C5: with the empty replacement string, replacePathArraysWithString
\* returns the object keys of the path joined by '.', in order.
ReplaceKeepsObjectKeys ==
    (op = "replacePathArraysWithString" /\ isString(path)
        /\ opts.string = <<>> /\ IsKeysWithIndices(path.s))
    => /\ ~thrown
       /\ out = joinDot([i \in 1..Len(splitDot(path.s)) |->
                           keyOf(splitDot(path.s)[i])])

\* C6: a non-empty path without '.' and '[' explodes to one fragment, the
\* whole path, and the fragment is classified 'object'.
PlainPathIsOneFragment ==
    (op = "explodePath" /\ pc = "idle" /\ isString(path) /\ path.s # <<>>
        /\ \A i \in 1..Len(path.s) : path.s[i] \notin {".", "["})
    => /\ ~thrown
       /\ out = <<path.s>>
       /\ getStartType(Str(out[1])) = "object"

\* The rule of the classifier, position by position (0-based positions):
\* the first character is '[', the first ']' after position 0 is at e, and
\* no ',' stands at a position from 2 up to e - 1.
IsArrayByRule(v) ==
    /\ isString(v)
    /\ Len(v.s) >= 1
    /\ v.s[1] = "["
    /\ \E e \in 1..(Len(v.s) - 1) :
         /\ v.s[e + 1] = "]"
         /\ \A f \in 1..(e - 1) : v.s[f + 1] # "]"
         /\ \A j \in 2..(e - 1) : v.s[j + 1] # ","

\* C9: getStartType returns one of 'object', 'array', 'unknown'; 'array'
\* exactly under the rule; 'unknown' exactly for the empty string and for
\* values that are not strings; 'object' otherwise.
ClassifierRule ==
    op = "getStartType"
    => /\ ~thrown
       /\ out \in {"object", "array", "unknown"}
       /\ out = "array" <=> IsArrayByRule(path)
       /\ out = "unknown" <=> (~isString(path) \/ path.s = <<>>)

ClassifierWitness ==
    /\ op = "getStartType"
    /\ path = Str(<<"[", "a", ",", "b", "]">>)
    /\ out = "object"

\* The tokenizer by offsets: a dot-segment is cut at every '[' found after
\* the offset where the current fragment starts.
RECURSIVE tokenizeFrom(_, _)
tokenizeFrom(segment, offset) ==
    LET cut == indexOf(segment, "[", offset + 1)
    IN  IF cut = -1 THEN <<sliceFrom(segment, offset)>>
        ELSE <<slice(segment, offset, cut)>> \o tokenizeFrom(segment, cut)

RECURSIVE tokenizeSegments(_)
tokenizeSegments(segs) ==
    IF segs = <<>> THEN <<>>
    ELSE tokenizeFrom(Head(segs), 0) \o tokenizeSegments(Tail(segs))

LongerThanOne(q) == Len(q) > 1

referenceTokenize(s) == SelectSeq(tokenizeSegments(splitDot(s)), LongerThanOne)

\* C10: every iteration of explodePath's loop strictly shortens the rest of
\* the segment (so the loop ends), and explodePath returns the fragments
\* of the tokenizer by offsets.
ExplodeByValueIsByOffset ==
    /\ [](pc = "done" => out = referenceTokenize(path.s))
    /\ [][ExplodeWhile => Len(partial') < Len(partial)]_vars

ExplodeRecurringWitness ==
    /\ pc = "done"
    /\ path = Str(<<"a", "b", "[", "a", "b">>)
    /\ out = << <<"a", "b">>, <<"[", "a", "b">> >>

\* C7: with a path that is neither a string nor an array, get and set
\* return the collection they were given and do not throw.
MalformedPathTolerated ==
    (op \in {"get", "set"} /\ ~isString(path) /\ ~isArray(path))
    => (~thrown /\ out = collection)

\* The location keys names exists in object: every key on the way is a
\* property of the value reached so far.
RECURSIVE resolves(_, _)
resolves(object, keys) ==
    \/ keys = <<>>
    \/ /\ isObject(object)
       /\ Head(keys) \in DOMAIN object.props
       /\ resolves(object.props[Head(keys)], Tail(keys))

RECURSIVE valueAt(_, _)
valueAt(object, keys) ==
    IF keys = <<>> THEN object
    ELSE valueAt(object.props[Head(keys)], Tail(keys))

\* C8: for a non-empty string or array path get does not throw; where the
\* raw path's location exists get returns the value stored there, whatever
\* that value is, and retries with the exploded path only where it does
\* not exist.
GetFallbackByAbsence ==
    (op = "get" /\ isPath(path))
    => LET keys == castPath(stripDot(path), collection)
       IN  /\ ~thrown
           /\ resolves(collection, keys) => out = valueAt(collection, keys)
           /\ (~resolves(collection, keys) /\ isString(path))
                => out = lodashGet(collection, Arr(explodePath(stripDot(path).s)),
                                   undefinedString)

====
